---- MODULE Spec2Model ----
(***************************************************************************)
(* Model of the cascading text-to-taxonomy resolution engine of            *)
(* src/src/utils/fuzzy_matcher.py (class FuzzyMatcher).                    *)
(*                                                                         *)
(* A text is a sequence of one-character strings.  A reference snapshot    *)
(* (a pandas DataFrame) is a record [columns, rows]: the set of column     *)
(* names it has and the sequence of its rows (positional index 1..n, the   *)
(* default RangeIndex), each row a function from column name to cell.      *)
(* A matcher returns the position of the row it matched, 0 for None.       *)
(***************************************************************************)
EXTENDS Integers, Sequences, FiniteSets, TLC

\* ---------------------------------------------------------------- bounds
MaxLen == 2          \* longest raw query text
MaxRows == 2         \* most rows of a snapshot
MaxThreshold == 2    \* largest long_text_threshold tried

\* ---------------------------------------------------------------- texts
Chars == {"a", "n", "A", " "}

\* a missing value (None / NaN) of a cell or of the raw_text argument
NaN == <<"NaN">>

Texts(n) == UNION {[1..k -> Chars] : k \in 0..n}

RawTexts == Texts(MaxLen) \cup {NaN}

\* characters outside ASCII, each written by its name: "micro" is the micro sign
\* U+00B5, "MU" the Greek capital mu U+039C, "mu" the Greek small mu U+03BC
FoldChars == {"a", "A", " ", "micro"}

\* str.lower() on one character
Lower(c) == CASE c = "A" -> "a"
              [] c = "N" -> "n"
              [] c = "MU" -> "mu"
              [] OTHER -> c

\* str.upper() on one character
Upper(c) == CASE c = "a" -> "A"
              [] c = "n" -> "N"
              [] c \in {"micro", "mu"} -> "MU"
              [] OTHER -> c

\* str.isspace(): what str.strip() removes
IsSpace(c) == c = " "

\* a regex word character (\w)
IsWordChar(c) == c \in {"a", "n", "A", "N", "micro", "MU", "mu"}

RECURSIVE LStrip(_)
LStrip(s) == IF s = <<>> THEN s
             ELSE IF IsSpace(Head(s)) THEN LStrip(Tail(s)) ELSE s

RECURSIVE RStrip(_)
RStrip(s) == IF s = <<>> THEN s
             ELSE IF IsSpace(s[Len(s)]) THEN RStrip(SubSeq(s, 1, Len(s) - 1)) ELSE s

\* s.strip().lower()
StripLower(s) == LET t == RStrip(LStrip(s)) IN [i \in 1..Len(t) |-> Lower(t[i])]

\* FuzzyMatcher._normalize_text
NormalizeText_NoStrip(text) ==
    IF text = <<>> \/ text = NaN THEN <<>> ELSE [i \in 1..Len(text) |-> Lower(text[i])]

NormalizeText(text) == IF text = <<>> \/ text = NaN THEN <<>> ELSE StripLower(text)

\* Series.astype(str): a missing value becomes the text 'nan'
AsTypeStr(v) == IF v = NaN THEN <<"n", "a", "n">> ELSE v

\* reference_df[col].astype(str).str.strip().str.lower(), for one cell
ColumnStrLower(v) == StripLower(AsTypeStr(v))

\* needle in hay (Python substring test; str.contains(regex=False))
Contains(hay, needle) ==
    \E i \in 0..(Len(hay) - Len(needle)) : SubSeq(hay, i + 1, i + Len(needle)) = needle

Min(S) == CHOOSE x \in S : \A y \in S : x <= y
Max(S) == CHOOSE x \in S : \A y \in S : x >= y

\* mask.any() / reference_df[mask].iloc[0]: first row of a mask, 0 when the mask is empty
FirstOf(S) == IF S = {} THEN 0 ELSE Min(S)

\* ------------------------------------------------------------- snapshots
NameColumns == {"KOR_NM", "ENG_NM", "ABRV"}
ProductOutputs == {"HTRK_PRDLST_NM", "GR_NM", "HRRK_PRDLST_NM", "PRDLST_CL_NM"}
HazardOutputs == {"M_KOR_NM", "ANALYZABLE", "INTEREST_ITEM"}
AllColumns == NameColumns \cup ProductOutputs \cup HazardOutputs

PyTrue == <<"True">>
PyFalse == <<"False">>
\* the object None, as distinct from the float NaN, in a flag cell
PyNone == <<"None">>

MkRow(tag, kor, eng, abrv, flag) ==
    [KOR_NM |-> kor, ENG_NM |-> eng, ABRV |-> abrv,
     HTRK_PRDLST_NM |-> IF flag THEN <<"top", tag>> ELSE NaN,
     GR_NM |-> <<"gr", tag>>,
     HRRK_PRDLST_NM |-> <<"upper", tag>>,
     PRDLST_CL_NM |-> <<"cl", tag>>,
     M_KOR_NM |-> <<"mid", tag>>,
     ANALYZABLE |-> IF flag THEN PyTrue ELSE PyFalse,
     INTEREST_ITEM |-> IF flag THEN PyFalse ELSE PyTrue]

\* the rows a snapshot of the cascade specification is made of
RowValues ==
    { MkRow("F", <<"a">>, NaN, NaN, TRUE),
      MkRow("A", <<"n", "A", " ">>, <<"a", "n">>, NaN, FALSE),
      MkRow("R", <<"a", "n", "n">>, NaN, NaN, FALSE),
      MkRow("N", <<"n", "n">>, <<"n">>, <<"a">>, TRUE) }

\* the rows a snapshot of the similarity specification is made of
SimRowValues ==
    { MkRow("P", <<"a", "n">>, <<"a", "n">>, <<"a", "n">>, TRUE),
      MkRow("Q", <<"a", "n">>, <<"n", "a">>, <<"a", "n">>, FALSE) }

\* entries written with the micro sign, with a capital and with padding
FoldRowValues ==
    { MkRow("U", <<"micro">>, NaN, NaN, TRUE),
      MkRow("V", <<" ", "A">>, <<"a", "a">>, NaN, FALSE) }

Snapshots(rowValues, lo) ==
    { [columns |-> AllColumns, rows |-> r] :
        r \in UNION {[1..k -> rowValues] : k \in lo..MaxRows} }

\* reference_df.empty
Empty(df) == Len(df.rows) = 0 \/ df.columns = {}

RowIds(df) == 1..Len(df.rows)

\* ------------------------------------------------------------- matchers
\* match_columns of match_product_type and of match_hazard_category
ProductMatchColumns == <<"KOR_NM", "ENG_NM">>
HazardMatchColumns == <<"KOR_NM", "ENG_NM", "ABRV", "NCKNM", "TESTITM_NM">>

\* FuzzyMatcher._exact_match, columns j..Len(match_columns)
\* mutant: the search ends at the first candidate column the snapshot lacks
RECURSIVE ExactFrom_StopsAtAbsent(_, _, _, _)
ExactFrom_StopsAtAbsent(search_term, df, match_columns, j) ==
    IF j > Len(match_columns) THEN 0
    ELSE LET col == match_columns[j] IN
         IF col \in df.columns
         THEN LET mask == {i \in RowIds(df) : ColumnStrLower(df.rows[i][col]) = search_term} IN
              IF mask # {} THEN FirstOf(mask)
              ELSE ExactFrom_StopsAtAbsent(search_term, df, match_columns, j + 1)
         ELSE 0

RECURSIVE ExactFrom(_, _, _, _)
ExactFrom(search_term, df, match_columns, j) ==
    IF j > Len(match_columns) THEN 0
    ELSE LET col == match_columns[j] IN
         IF col \in df.columns
         THEN LET mask == {i \in RowIds(df) : ColumnStrLower(df.rows[i][col]) = search_term} IN
              IF mask # {} THEN FirstOf(mask)
              ELSE ExactFrom(search_term, df, match_columns, j + 1)
         ELSE ExactFrom(search_term, df, match_columns, j + 1)

\* mutant: the first row with an equal entry in any candidate column
ExactMatch_RowMajor(search_term, df, match_columns) ==
    FirstOf({i \in RowIds(df) :
               \E j \in 1..Len(match_columns) :
                  /\ match_columns[j] \in df.columns
                  /\ ColumnStrLower(df.rows[i][match_columns[j]]) = search_term})

ExactMatch(search_term, df, match_columns) == ExactFrom(search_term, df, match_columns, 1)

\* first pass of _keyword_match on one column: the reference contains the search term
ContainsMask(search_term, df, col) ==
    {i \in RowIds(df) : Contains(ColumnStrLower(df.rows[i][col]), search_term)}

\* second pass of _keyword_match on one column: the search term contains the reference
ContainedMask(search_term, df, col) ==
    {i \in RowIds(df) : LET ref_normalized == NormalizeText(df.rows[i][col]) IN
                          ref_normalized # <<>> /\ Contains(search_term, ref_normalized)}

\* mutant: the search-term-contains-reference pass runs first
KeywordColumn_ContainedFirst(search_term, df, col) ==
    IF ContainedMask(search_term, df, col) # {}
    THEN FirstOf(ContainedMask(search_term, df, col))
    ELSE FirstOf(ContainsMask(search_term, df, col))

\* the two passes of _keyword_match on one column
KeywordColumn(search_term, df, col) ==
    IF ContainsMask(search_term, df, col) # {}
    THEN FirstOf(ContainsMask(search_term, df, col))
    ELSE FirstOf(ContainedMask(search_term, df, col))

\* FuzzyMatcher._keyword_match, columns j..Len(match_columns)
RECURSIVE KeywordFrom(_, _, _, _)
KeywordFrom(search_term, df, match_columns, j) ==
    IF j > Len(match_columns) THEN 0
    ELSE LET col == match_columns[j] IN
         IF col \in df.columns /\ KeywordColumn(search_term, df, col) # 0
         THEN KeywordColumn(search_term, df, col)
         ELSE KeywordFrom(search_term, df, match_columns, j + 1)

KeywordMatch(search_term, df, match_columns) == KeywordFrom(search_term, df, match_columns, 1)

\* mutant: the first keyword found is kept, whatever its length
ScanStep_FirstFound(best, search_term, df, col, i) ==
    LET ref_normalized == NormalizeText(df.rows[i][col]) IN
    IF ref_normalized = <<>> THEN best
    ELSE IF Contains(search_term, ref_normalized) /\ best.row = 0
         THEN [row |-> i, len |-> Len(ref_normalized)]
         ELSE best

\* mutant: a keyword of equal length replaces the best one
ScanStep_LastOfTies(best, search_term, df, col, i) ==
    LET ref_normalized == NormalizeText(df.rows[i][col]) IN
    IF ref_normalized = <<>> THEN best
    ELSE IF Contains(search_term, ref_normalized) /\ Len(ref_normalized) >= best.len
         THEN [row |-> i, len |-> Len(ref_normalized)]
         ELSE best

\* one iteration of the inner loop of _sentence_scan_match; best = [row, len]
ScanStep(best, search_term, df, col, i) ==
    LET ref_normalized == NormalizeText(df.rows[i][col]) IN
    IF ref_normalized = <<>> THEN best
    ELSE IF Contains(search_term, ref_normalized) /\ Len(ref_normalized) > best.len
         THEN [row |-> i, len |-> Len(ref_normalized)]
         ELSE best

\* the inner loop of _sentence_scan_match over rows i..n of one column
RECURSIVE ScanRows(_, _, _, _, _)
ScanRows(best, search_term, df, col, i) ==
    IF i > Len(df.rows) THEN best
    ELSE ScanRows(ScanStep(best, search_term, df, col, i), search_term, df, col, i + 1)

\* the outer loop of _sentence_scan_match over columns j..Len(match_columns)
RECURSIVE ScanFrom(_, _, _, _, _)
ScanFrom(best, search_term, df, match_columns, j) ==
    IF j > Len(match_columns) THEN best
    ELSE LET col == match_columns[j] IN
         IF col \in df.columns
         THEN ScanFrom(ScanRows(best, search_term, df, col, 1), search_term, df, match_columns, j + 1)
         ELSE ScanFrom(best, search_term, df, match_columns, j + 1)

\* FuzzyMatcher._sentence_scan_match
SentenceScanMatch(search_term, df, match_columns) ==
    ScanFrom([row |-> 0, len |-> 0], search_term, df, match_columns, 1).row

\* rapidfuzz fuzz.WRatio(search_term, choice): a library scorer with values in 0..100;
\* scores is the score the library gives each choice for the query at hand,
\* and an empty text scores 0
WRatio(scores, search_term, choice) ==
    IF search_term = <<>> \/ choice = <<>> THEN 0 ELSE scores[choice]

\* rapidfuzz process.extractOne(search_term, choices, scorer=WRatio, score_cutoff):
\* the first choice with the highest score, None ([idx |-> 0]) when that score is
\* below the cutoff
ExtractOne(scores, search_term, df, col, score_cutoff) ==
    LET score(i) == WRatio(scores, search_term, ColumnStrLower(df.rows[i][col]))
        top == Max({score(i) : i \in RowIds(df)})
    IN  IF top >= score_cutoff
        THEN [idx |-> Min({i \in RowIds(df) : score(i) = top}), score |-> top]
        ELSE [idx |-> 0, score |-> 0]

\* mutant: the first column with a result above the cutoff decides
FuzzyStep_FirstColumn(best, result) ==
    IF result.idx # 0 /\ best.row = 0
    THEN [row |-> result.idx, score |-> result.score]
    ELSE best

\* the body of the column loop of _fuzzy_match; best = [row, score]
FuzzyStep(best, result) ==
    IF result.idx # 0 /\ result.score > best.score
    THEN [row |-> result.idx, score |-> result.score]
    ELSE best

\* the column loop of _fuzzy_match over columns j..Len(match_columns)
RECURSIVE FuzzyFrom(_, _, _, _, _, _, _)
FuzzyFrom(best, scores, cutoff, search_term, df, match_columns, j) ==
    IF j > Len(match_columns) THEN best
    ELSE LET col == match_columns[j] IN
         IF col \in df.columns
         THEN FuzzyFrom(FuzzyStep(best, ExtractOne(scores, search_term, df, col, cutoff)),
                        scores, cutoff, search_term, df, match_columns, j + 1)
         ELSE FuzzyFrom(best, scores, cutoff, search_term, df, match_columns, j + 1)

\* FuzzyMatcher._fuzzy_match
FuzzyMatch(scores, cutoff, search_term, df, match_columns) ==
    FuzzyFrom([row |-> 0, score |-> 0], scores, cutoff, search_term, df, match_columns, 1).row

\* ------------------------------------------------------------- cascades
\* one strategy call and the row it returned (0 for None)
Attempt(s, r) == [strategy |-> s, row |-> r]

\* mutant: Keyword is tried before Exact
StandardCascade_KeywordFirst(scores, cutoff, search_term, df, match_columns) ==
    LET e == ExactMatch(search_term, df, match_columns)
        k == KeywordMatch(search_term, df, match_columns)
        f == FuzzyMatch(scores, cutoff, search_term, df, match_columns)
    IN  IF k # 0 THEN <<Attempt("keyword", k)>>
        ELSE IF e # 0 THEN <<Attempt("keyword", k), Attempt("exact", e)>>
        ELSE <<Attempt("keyword", k), Attempt("exact", e), Attempt("fuzzy", f)>>

\* Exact -> Keyword -> Similarity, each tried only when the one before returned None:
\* match_product_type lines 233-237, match_hazard_category lines 318-322
StandardCascade(scores, cutoff, search_term, df, match_columns) ==
    LET e == ExactMatch(search_term, df, match_columns)
        k == KeywordMatch(search_term, df, match_columns)
        f == FuzzyMatch(scores, cutoff, search_term, df, match_columns)
    IN  IF e # 0 THEN <<Attempt("exact", e)>>
        ELSE IF k # 0 THEN <<Attempt("exact", e), Attempt("keyword", k)>>
        ELSE <<Attempt("exact", e), Attempt("keyword", k), Attempt("fuzzy", f)>>

\* mutant: the long-text path falls back to Similarity as well
LongTextCascade_WithFuzzy(scores, cutoff, search_term, df, match_columns) ==
    LET s == SentenceScanMatch(search_term, df, match_columns)
        e == ExactMatch(search_term, df, match_columns)
        k == KeywordMatch(search_term, df, match_columns)
        f == FuzzyMatch(scores, cutoff, search_term, df, match_columns)
    IN  IF s # 0 THEN <<Attempt("scan", s)>>
        ELSE IF e # 0 THEN <<Attempt("scan", s), Attempt("exact", e)>>
        ELSE IF k # 0 THEN <<Attempt("scan", s), Attempt("exact", e), Attempt("keyword", k)>>
        ELSE <<Attempt("scan", s), Attempt("exact", e), Attempt("keyword", k),
               Attempt("fuzzy", f)>>

\* Sentence Scan -> Exact -> Keyword, no Similarity: match_hazard_category lines 306-315
LongTextCascade(search_term, df, match_columns) ==
    LET s == SentenceScanMatch(search_term, df, match_columns)
        e == ExactMatch(search_term, df, match_columns)
        k == KeywordMatch(search_term, df, match_columns)
    IN  IF s # 0 THEN <<Attempt("scan", s)>>
        ELSE IF e # 0 THEN <<Attempt("scan", s), Attempt("exact", e)>>
        ELSE <<Attempt("scan", s), Attempt("exact", e), Attempt("keyword", k)>>

\* mutant: a text of exactly the threshold length counts as long
IsLongText_AtThreshold(search_term, long_threshold) == Len(search_term) >= long_threshold

\* the test of line 306 that sends a hazard query to the long-text cascade
IsLongText(search_term, long_threshold) == Len(search_term) > long_threshold

\* the strategy calls of match_product_type
ProductCascade(scores, cutoff, search_term, df) ==
    StandardCascade(scores, cutoff, search_term, df, ProductMatchColumns)

\* mutant of HazardCascade: Similarity is run after the long-text strategies
HazardCascade_FuzzyOnLong(scores, cutoff, long_threshold, search_term, df) ==
    IF IsLongText(search_term, long_threshold)
    THEN LongTextCascade_WithFuzzy(scores, cutoff, search_term, df, HazardMatchColumns)
    ELSE StandardCascade(scores, cutoff, search_term, df, HazardMatchColumns)

\* the strategy calls of match_hazard_category
HazardCascade(scores, cutoff, long_threshold, search_term, df) ==
    IF IsLongText(search_term, long_threshold)
    THEN LongTextCascade(search_term, df, HazardMatchColumns)
    ELSE StandardCascade(scores, cutoff, search_term, df, HazardMatchColumns)

\* matched_row after the strategy calls
MatchedRow(attempts) == attempts[Len(attempts)].row

\* pd.notna(matched_row.get(col)) for a column the row has
NotNa(df, row, col) == col \in df.columns /\ df.rows[row][col] # NaN

\* bool(value) of a flag cell (bool(float('nan')) is True)
PyBool(v) == v \notin {PyFalse, PyNone}

NoProductInfo == [top |-> NaN, upper |-> NaN]
NoHazardInfo == [category |-> NaN, analyzable |-> FALSE, interest |-> FALSE]

\* match_product_type lines 239-253
ProductInfo(df, row) ==
    IF row = 0 THEN NoProductInfo
    ELSE [top |-> IF NotNa(df, row, "HTRK_PRDLST_NM") THEN df.rows[row]["HTRK_PRDLST_NM"]
                  ELSE IF NotNa(df, row, "GR_NM") THEN df.rows[row]["GR_NM"]
                  ELSE NaN,
          upper |-> IF NotNa(df, row, "HRRK_PRDLST_NM") THEN df.rows[row]["HRRK_PRDLST_NM"]
                    ELSE IF NotNa(df, row, "PRDLST_CL_NM") THEN df.rows[row]["PRDLST_CL_NM"]
                    ELSE NaN]

\* match_hazard_category lines 324-330
HazardInfo(df, row) ==
    IF row = 0 THEN NoHazardInfo
    ELSE [category |-> IF "M_KOR_NM" \in df.columns THEN df.rows[row]["M_KOR_NM"] ELSE NaN,
          analyzable |-> IF "ANALYZABLE" \in df.columns
                         THEN PyBool(df.rows[row]["ANALYZABLE"]) ELSE FALSE,
          interest |-> IF "INTEREST_ITEM" \in df.columns
                       THEN PyBool(df.rows[row]["INTEREST_ITEM"]) ELSE FALSE]

\* the order in which a call runs the strategies
CascadeOrder(kind, search_term, long_threshold) ==
    IF kind = "hazard" /\ IsLongText(search_term, long_threshold)
    THEN <<"scan", "exact", "keyword">>
    ELSE <<"exact", "keyword", "fuzzy">>

\* the candidate columns of a call
MatchColumns(kind) == IF kind = "product" THEN ProductMatchColumns ELSE HazardMatchColumns

\* one strategy call of a cascade
RunStrategy(s, scores, cutoff, search_term, df, match_columns) ==
    CASE s = "exact" -> ExactMatch(search_term, df, match_columns)
      [] s = "keyword" -> KeywordMatch(search_term, df, match_columns)
      [] s = "scan" -> SentenceScanMatch(search_term, df, match_columns)
      [] s = "fuzzy" -> FuzzyMatch(scores, cutoff, search_term, df, match_columns)

\* ---------------------------------------------------------------- state
VARIABLES
    similarity_threshold,   \* FuzzyMatcher.similarity_threshold
    long_text_threshold,    \* FuzzyMatcher.long_text_threshold
    reference_df,           \* the snapshot the caller hands to the matcher
    wratio,                 \* the scores fuzz.WRatio gives the choices
    op,                     \* the call that has just run: "none", "product" or "hazard"
    raw_text,               \* its raw_text argument
    attempted,              \* the strategy calls it made, in order
    matched_row,            \* its matched_row (0 for None)
    info,                   \* the dictionary it returned
    source,                 \* the source argument of the map_hazard call that has just run
    remembered,             \* an earlier call and its result, kept by the caller
    frames,                 \* the calls in flight, one frame per thread
    rules,                  \* KeywordMapper.rules
    hub,                    \* data/hub/hub_data.parquet
    saved,                  \* the save_to_hub or ReferenceLoader.run call that has just run
    keyed,                  \* the deduplication call that has just run
    master,                 \* a reference master file under data/reference
    fetch                   \* the fetch_data call in progress

vars == <<similarity_threshold, long_text_threshold, reference_df, wratio,
          op, raw_text, attempted, matched_row, info, source, remembered, frames, rules,
          hub, saved, keyed, master, fetch>>

\* the files and the calls of the storage utilities
store_vars == <<hub, saved, keyed, master, fetch>>

\* no earlier call is kept
NoRecord == [op |-> "none"]

\* the worker threads of a caller, and the frame of a thread that runs no call
Threads == {"t1", "t2"}
Idle == [pc |-> "idle"]

\* defaults of FuzzyMatcher.__init__
DefaultSimilarityThreshold == 80
DefaultLongTextThreshold == 30

\* the similarity scores and cutoffs tried
Scores == {0, 79, 80, 100}
Cutoffs == {0, 80}

\* the texts a snapshot made of rowValues offers extractOne as choices
ChoiceTexts(rowValues) == {ColumnStrLower(r[c]) : r \in rowValues, c \in NameColumns}

\* no hub file, no master file
NoFile == [exists |-> FALSE, rows |-> <<>>]

NoCall ==
    /\ op = "none"
    /\ raw_text = NaN
    /\ attempted = <<>>
    /\ matched_row = 0
    /\ info = NoProductInfo
    /\ source = ""
    /\ remembered = NoRecord
    /\ frames = [t \in Threads |-> Idle]
    /\ rules = <<>>
    /\ hub = NoFile
    /\ saved = NoRecord
    /\ keyed = NoRecord
    /\ master = NoFile
    /\ fetch = NoRecord

\* cascade specification: many snapshots and thresholds, a scorer that gives
\* every choice the same score
Init ==
    /\ similarity_threshold = DefaultSimilarityThreshold
    /\ long_text_threshold \in 1..MaxThreshold
    /\ reference_df \in Snapshots(RowValues, 0)
    /\ wratio \in {[c \in ChoiceTexts(RowValues) |-> s] : s \in {0, 100}}
    /\ NoCall

\* similarity specification: few snapshots, every scorer and cutoff
InitSim ==
    /\ similarity_threshold \in Cutoffs
    /\ long_text_threshold = DefaultLongTextThreshold
    /\ reference_df \in Snapshots(SimRowValues, 1)
    /\ wratio \in [ChoiceTexts(SimRowValues) -> Scores]
    /\ NoCall

\* case and padding variants of a text: str.upper(), str.lower(), whitespace added
Kinds == {"upper", "lower", "lpad", "rpad"}

Recase(kind, text) ==
    IF text = NaN THEN NaN
    ELSE CASE kind = "upper" -> [i \in 1..Len(text) |-> Upper(text[i])]
           [] kind = "lower" -> [i \in 1..Len(text) |-> Lower(text[i])]
           [] kind = "lpad" -> <<" ">> \o text
           [] kind = "rpad" -> text \o <<" ">>

RecaseRow(kind, row) ==
    [c \in DOMAIN row |-> IF c \in NameColumns THEN Recase(kind, row[c]) ELSE row[c]]

RecaseFrame(kind, df) ==
    [df EXCEPT !.rows = [i \in DOMAIN df.rows |-> RecaseRow(kind, df.rows[i])]]

\* the falsy raw_text of lines 221 and 292
Falsy(text) == text = NaN \/ text = <<>>

\* what a call returns and what it went through: the strategies attempted, the
\* row the result is built from (0 for none) and the returned dictionary
Outcome(attempts, row, result) == [attempted |-> attempts, matched_row |-> row, info |-> result]

\* FuzzyMatcher.match_product_type(raw_text, product_ref_df) of a matcher whose
\* fields are cutoff and, for the scorer, the table scores
match_product_type(scores, cutoff, raw, df) ==
    LET search_term == NormalizeText(raw)
        attempts == ProductCascade(scores, cutoff, search_term, df)
    IN  IF Empty(df) \/ Falsy(raw) \/ search_term = <<>>
        THEN Outcome(<<>>, 0, NoProductInfo)
        ELSE Outcome(attempts, MatchedRow(attempts), ProductInfo(df, MatchedRow(attempts)))

\* FuzzyMatcher.match_hazard_category(raw_text, hazard_ref_df)
match_hazard_category(scores, cutoff, long_threshold, raw, df) ==
    LET search_term == NormalizeText(raw)
        attempts == HazardCascade(scores, cutoff, long_threshold, search_term, df)
    IN  IF Empty(df) \/ Falsy(raw) \/ search_term = <<>>
        THEN Outcome(<<>>, 0, NoHazardInfo)
        ELSE Outcome(attempts, MatchedRow(attempts), HazardInfo(df, MatchedRow(attempts)))

\* mutant: the call leaves the cutoff of the matcher lowered
MatchProductType_LowersCutoff(raw) ==
    LET out == match_product_type(wratio, similarity_threshold, raw, reference_df)
    IN  /\ op = "none"
        /\ op' = "product"
        /\ raw_text' = raw
        /\ attempted' = out.attempted
        /\ matched_row' = out.matched_row
        /\ info' = out.info
        /\ similarity_threshold' = 0
        /\ UNCHANGED <<long_text_threshold, reference_df, wratio>>
        /\ UNCHANGED <<source, remembered, frames, rules>>
        /\ UNCHANGED store_vars

\* a caller resolves a product type against the snapshot it holds
MatchProductType(raw) ==
    LET out == match_product_type(wratio, similarity_threshold, raw, reference_df)
    IN  /\ op = "none"
        /\ op' = "product"
        /\ raw_text' = raw
        /\ attempted' = out.attempted
        /\ matched_row' = out.matched_row
        /\ info' = out.info
        /\ UNCHANGED <<similarity_threshold, long_text_threshold, reference_df, wratio>>
        /\ UNCHANGED <<source, remembered, frames, rules>>
        /\ UNCHANGED store_vars

\* mutant: the call writes the lower-cased names back into the snapshot
MatchHazardCategory_NormalizesInPlace(raw) ==
    LET out == match_hazard_category(wratio, similarity_threshold, long_text_threshold,
                                     raw, reference_df)
    IN  /\ op = "none"
        /\ op' = "hazard"
        /\ raw_text' = raw
        /\ attempted' = out.attempted
        /\ matched_row' = out.matched_row
        /\ info' = out.info
        /\ reference_df' = RecaseFrame("lower", reference_df)
        /\ UNCHANGED <<similarity_threshold, long_text_threshold, wratio>>
        /\ UNCHANGED <<source, remembered, frames, rules>>
        /\ UNCHANGED store_vars

\* a caller resolves a hazard category against the snapshot it holds
MatchHazardCategory(raw) ==
    LET out == match_hazard_category(wratio, similarity_threshold, long_text_threshold,
                                     raw, reference_df)
    IN  /\ op = "none"
        /\ op' = "hazard"
        /\ raw_text' = raw
        /\ attempted' = out.attempted
        /\ matched_row' = out.matched_row
        /\ info' = out.info
        /\ UNCHANGED <<similarity_threshold, long_text_threshold, reference_df, wratio>>
        /\ UNCHANGED <<source, remembered, frames, rules>>
        /\ UNCHANGED store_vars

\* the caller takes the returned dictionary and the call's frame is gone
Return ==
    /\ op # "none"
    /\ op' = "none"
    /\ raw_text' = NaN
    /\ attempted' = <<>>
    /\ matched_row' = 0
    /\ info' = NoProductInfo
    /\ UNCHANGED <<similarity_threshold, long_text_threshold, reference_df, wratio>>
    /\ UNCHANGED <<remembered, frames, rules>>
    /\ UNCHANGED store_vars
    /\ source' = ""

\* the caller keeps the call and the dictionary it returned
Remember ==
    /\ op \in {"product", "hazard"}
    /\ remembered = NoRecord
    /\ remembered' = [op |-> op, raw_text |-> raw_text, info |-> info]
    /\ op' = "none"
    /\ raw_text' = NaN
    /\ attempted' = <<>>
    /\ matched_row' = 0
    /\ info' = NoProductInfo
    /\ UNCHANGED <<similarity_threshold, long_text_threshold, reference_df, wratio>>
    /\ UNCHANGED <<source, frames, rules>>
    /\ UNCHANGED store_vars

Next ==
    \/ \E raw \in RawTexts : MatchProductType(raw)
    \/ \E raw \in RawTexts : MatchHazardCategory(raw)
    \/ Return

Spec == Init /\ [][Next]_vars

\* rows with a value in more than one candidate column
ColRowValues == {r \in RowValues : r.ENG_NM # NaN}

\* the columns a loaded snapshot can lack: candidate columns and output columns
LackedColumns ==
    { {}, {"KOR_NM"}, {"KOR_NM", "HTRK_PRDLST_NM"}, {"KOR_NM", "ENG_NM"}, NameColumns,
      {"HTRK_PRDLST_NM", "GR_NM"}, {"HRRK_PRDLST_NM", "PRDLST_CL_NM"}, HazardOutputs }

\* a default matcher over snapshots that lack some columns
InitCols ==
    /\ similarity_threshold = DefaultSimilarityThreshold
    /\ long_text_threshold \in 1..MaxThreshold
    /\ reference_df \in { [d EXCEPT !.columns = AllColumns \ lacked] :
                            d \in Snapshots(ColRowValues, 1), lacked \in LackedColumns }
    /\ wratio \in {[c \in ChoiceTexts(ColRowValues) |-> s] : s \in {0, 100}}
    /\ NoCall

SpecCols == InitCols /\ [][Next]_vars

\* hazard entries whose flags are true, false, None and NaN
FlagRowValues ==
    { [MkRow("G", <<"a">>, <<"n", "n">>, NaN, TRUE)
          EXCEPT !.ANALYZABLE = f, !.INTEREST_ITEM = g] :
        f \in {PyTrue, PyFalse, PyNone, NaN}, g \in {PyTrue, PyFalse} }
    \cup
    { [MkRow("H", <<"a">>, <<"n", "n">>, NaN, TRUE) EXCEPT !.INTEREST_ITEM = g] :
        g \in {PyNone, NaN} }

\* a default matcher over snapshots of such entries
InitFlags ==
    /\ similarity_threshold = DefaultSimilarityThreshold
    /\ long_text_threshold \in 1..MaxThreshold
    /\ reference_df \in { d \in Snapshots(FlagRowValues, 1) : Len(d.rows) = 1 }
    /\ wratio \in {[c \in ChoiceTexts(FlagRowValues) |-> sc] : sc \in {0, 100}}
    /\ NoCall

SpecFlags == InitFlags /\ [][Next]_vars

\* an entry without a name in KOR_NM and an entry named 'nan', and the queries
\* that meet them
NullRowValues ==
    { MkRow("X", NaN, <<"a">>, NaN, TRUE),
      MkRow("Y", <<"n", "a", "n">>, NaN, NaN, FALSE) }

NullTexts == {<<"n", "a", "n">>, <<"a", "n">>, <<"a">>}

InitNull ==
    /\ similarity_threshold = DefaultSimilarityThreshold
    /\ long_text_threshold \in 1..MaxThreshold
    /\ reference_df \in Snapshots(NullRowValues, 1)
    /\ wratio \in {[c \in ChoiceTexts(NullRowValues) |-> sc] : sc \in {0, 100}}
    /\ NoCall

NextNull ==
    \/ \E raw \in NullTexts : MatchProductType(raw)
    \/ \E raw \in NullTexts : MatchHazardCategory(raw)
    \/ Return

SpecNull == InitNull /\ [][NextNull]_vars

\* the cutoffs a caller may pass to FuzzyMatcher(similarity_threshold=...) and to
\* the convenience functions: in range, at both ends of the range, and outside it
ConfigCutoffs == {-1, 0, 80, 100, 101}

\* __init__ stores whatever cutoff it is given
InitConfig ==
    /\ similarity_threshold \in ConfigCutoffs
    /\ long_text_threshold = DefaultLongTextThreshold
    /\ reference_df \in Snapshots(SimRowValues, 1)
    /\ wratio \in {[c \in ChoiceTexts(SimRowValues) |-> s] : s \in Scores}
    /\ NoCall

SpecConfig == InitConfig /\ [][Next]_vars

\* the queries a caller repeats
TwiceTexts == {<<"a", "n">>, <<"n", "a">>, <<"n", "n">>, <<" ", "A">>}

\* a default matcher, every scorer over the choices of the similarity rows
InitTwice ==
    /\ similarity_threshold = DefaultSimilarityThreshold
    /\ long_text_threshold \in 1..MaxThreshold
    /\ reference_df \in Snapshots(SimRowValues, 1)
    /\ wratio \in [ChoiceTexts(SimRowValues) -> {79, 100}]
    /\ NoCall

NextTwice ==
    \/ \E raw \in TwiceTexts : MatchProductType(raw)
    \/ \E raw \in TwiceTexts : MatchHazardCategory(raw)
    \/ Return
    \/ Remember

SpecTwice == InitTwice /\ [][NextTwice]_vars

\* ------------------------------------------------ calls from several threads
\* the complete snapshots the loader publishes, and the queries of the threads
ConcSnapshots == {d \in Snapshots(ColRowValues, 1) : Len(d.rows) = 1}
ConcTexts == {<<"n">>, <<"a", "n">>}

\* mutant: a call in flight reads the snapshot that is published now
FrameSnapshot_Published(f) == reference_df

\* the snapshot a call in flight reads: the one it was handed when it began
FrameSnapshot(f) == f.df

\* a thread calls match_product_type or match_hazard_category with the snapshot
\* that is published at that moment; the short circuits return at once
Begin(t, kind, raw) ==
    LET df == reference_df
        short == Empty(df) \/ Falsy(raw) \/ NormalizeText(raw) = <<>>
    IN  /\ frames[t] = Idle
        /\ frames' = [frames EXCEPT ![t] =
                        [pc |-> IF short THEN "done" ELSE "run",
                         kind |-> kind, raw |-> raw, df |-> df, seen |-> {df},
                         attempted |-> <<>>, matched_row |-> 0,
                         info |-> IF kind = "product" THEN NoProductInfo ELSE NoHazardInfo]]
        /\ UNCHANGED <<similarity_threshold, long_text_threshold, reference_df, wratio>>
        /\ UNCHANGED <<op, raw_text, attempted, matched_row, info, source, remembered, rules>>
        /\ UNCHANGED store_vars

\* the call of thread t runs its next strategy; it returns at the first row, or
\* with no match after the last strategy
Step(t) ==
    LET f == frames[t]
        df == FrameSnapshot(f)
        search_term == NormalizeText(f.raw)
        order == CascadeOrder(f.kind, search_term, long_text_threshold)
        s == order[Len(f.attempted) + 1]
        row == RunStrategy(s, wratio, similarity_threshold, search_term, df,
                           MatchColumns(f.kind))
        last == row # 0 \/ Len(f.attempted) + 1 = Len(order)
    IN  /\ f.pc = "run"
        /\ frames' = [frames EXCEPT ![t] =
                        [f EXCEPT !.attempted = Append(@, Attempt(s, row)),
                                  !.pc = IF last THEN "done" ELSE "run",
                                  !.matched_row = row,
                                  !.info = IF ~last THEN @
                                           ELSE IF f.kind = "product" THEN ProductInfo(df, row)
                                           ELSE HazardInfo(df, row)]]
        /\ UNCHANGED <<similarity_threshold, long_text_threshold, reference_df, wratio>>
        /\ UNCHANGED <<op, raw_text, attempted, matched_row, info, source, remembered, rules>>
        /\ UNCHANGED store_vars

\* the thread takes the returned dictionary
Finish(t) ==
    /\ frames[t].pc = "done"
    /\ frames' = [frames EXCEPT ![t] = Idle]
    /\ UNCHANGED <<similarity_threshold, long_text_threshold, reference_df, wratio>>
    /\ UNCHANGED <<op, raw_text, attempted, matched_row, info, source, remembered, rules>>
    /\ UNCHANGED store_vars

\* the loader publishes another complete snapshot by assigning the reference;
\* the calls in flight are noted to have run while it was published
Swap(d) ==
    /\ d # reference_df
    /\ reference_df' = d
    /\ frames' = [t \in Threads |->
                    IF frames[t].pc = "run"
                    THEN [frames[t] EXCEPT !.seen = @ \cup {d}]
                    ELSE frames[t]]
    /\ UNCHANGED <<similarity_threshold, long_text_threshold, wratio>>
    /\ UNCHANGED <<op, raw_text, attempted, matched_row, info, source, remembered, rules>>
    /\ UNCHANGED store_vars

InitConc ==
    /\ similarity_threshold = DefaultSimilarityThreshold
    /\ long_text_threshold = 1
    /\ reference_df \in ConcSnapshots
    /\ wratio \in {[c \in ChoiceTexts(ColRowValues) |-> sc] : sc \in {0, 100}}
    /\ NoCall

NextConc ==
    \/ \E t \in Threads, kind \in {"product", "hazard"}, raw \in ConcTexts : Begin(t, kind, raw)
    \/ \E t \in Threads : Step(t)
    \/ \E t \in Threads : Finish(t)
    \/ \E d \in ConcSnapshots : Swap(d)

SpecConc == InitConc /\ [][NextConc]_vars

\* ------------------------------------------------------------ KeywordMapper
\* the characters of keywords and texts: a letter in both cases and a character
\* that is not a word character
MapChars == {"a", "A", "%"}

MapTexts == UNION {[1..k -> MapChars] : k \in 0..(MaxLen + 1)} \cup {NaN}

\* the source argument: "" for None, which is falsy as well
Sources == {"", "MFDS", "FDA"}

MkRule(tag, keyword, src) ==
    [keyword |-> keyword, source |-> src,
     hazard_item |-> <<"item", tag>>, class_m |-> <<"m", tag>>, class_l |-> <<"l", tag>>]

\* rows of keyword_map_master: 1-character keywords in lower case, in upper case
\* and outside the word characters, 2-character keywords of equal length
RuleValues ==
    { MkRule("s", <<"a">>, "ALL"),
      MkRule("S", <<"A">>, "ALL"),
      MkRule("p", <<"%">>, "ALL"),
      MkRule("d", <<"a", "%">>, "MFDS"),
      MkRule("D", <<"A", "a">>, "ALL") }

\* str.lower() and str.upper() on a text
LowerText(text) == [i \in 1..Len(text) |-> Lower(text[i])]

\* the regex \b at the gap after position p of text (0 is the start of the text)
WordAt(text, i) == i \in 1..Len(text) /\ IsWordChar(text[i])
WordBoundary(text, p) == WordAt(text, p) # WordAt(text, p + 1)

\* re.search(rf"\b{re.escape(keyword)}\b", text_lower) for a 1-character keyword
ShortKeywordSearch(keyword, text_lower) ==
    \E p \in 1..Len(text_lower) :
        /\ text_lower[p] = keyword[1]
        /\ WordBoundary(text_lower, p - 1)
        /\ WordBoundary(text_lower, p)

\* match_found of one rule
RuleMatches(keyword, text_lower) ==
    IF keyword = <<>> THEN FALSE
    ELSE IF Len(keyword) < 2 THEN ShortKeywordSearch(keyword, text_lower)
    ELSE Contains(text_lower, LowerText(keyword))

\* mutant: the source argument is ignored
CandidateRules_Unfiltered(rs, src) == 1..Len(rs)

\* the rules map_hazard iterates over, by position in self.rules
CandidateRules(rs, src) ==
    IF src # "" THEN {i \in 1..Len(rs) : rs[i].source = "ALL" \/ rs[i].source = src}
    ELSE 1..Len(rs)

NoBest == [row |-> 0, len |-> 0]

\* mutant: a later rule of the same keyword length replaces the best one
MapStep_LastOfTies(best, rs, i, text_lower) ==
    IF RuleMatches(rs[i].keyword, text_lower) /\ Len(rs[i].keyword) >= best.len
    THEN [row |-> i, len |-> Len(rs[i].keyword)]
    ELSE best

\* one iteration of the loop over the candidate rules
MapStep(best, rs, i, text_lower) ==
    IF RuleMatches(rs[i].keyword, text_lower) /\ Len(rs[i].keyword) > best.len
    THEN [row |-> i, len |-> Len(rs[i].keyword)]
    ELSE best

RECURSIVE MapFrom(_, _, _, _, _)
MapFrom(best, rs, candidates, i, text_lower) ==
    IF i > Len(rs) THEN best
    ELSE IF i \in candidates
         THEN MapFrom(MapStep(best, rs, i, text_lower), rs, candidates, i + 1, text_lower)
         ELSE MapFrom(best, rs, candidates, i + 1, text_lower)

\* the dictionary built from the best rule
HazardOf(rule) ==
    [hazard_item |-> rule.hazard_item, class_m |-> rule.class_m, class_l |-> rule.class_l]

\* KeywordMapper.map_hazard(text, source): the position of the best rule (0 for
\* none) and the returned dictionary (NaN for None)
map_hazard(rs, text, src) ==
    LET candidates == CandidateRules(rs, src)
        best == MapFrom(NoBest, rs, candidates, 1, LowerText(text))
    IN  IF Falsy(text) \/ Len(rs) = 0 \/ candidates = {} \/ best.row = 0
        THEN [matched_row |-> 0, info |-> NaN]
        ELSE [matched_row |-> best.row, info |-> HazardOf(rs[best.row])]

\* a caller maps a text to a hazard
MapHazard(text, src) ==
    LET out == map_hazard(rules, text, src)
    IN  /\ op = "none"
        /\ op' = "map_hazard"
        /\ raw_text' = text
        /\ source' = src
        /\ attempted' = <<>>
        /\ matched_row' = out.matched_row
        /\ info' = out.info
        /\ UNCHANGED <<similarity_threshold, long_text_threshold, reference_df, wratio>>
        /\ UNCHANGED <<remembered, frames, rules>>
        /\ UNCHANGED store_vars

\* a mapper that has loaded its rules
InitMapper ==
    /\ similarity_threshold = DefaultSimilarityThreshold
    /\ long_text_threshold = DefaultLongTextThreshold
    /\ reference_df = [columns |-> AllColumns, rows |-> <<>>]
    /\ wratio = [c \in {} |-> 0]
    /\ op = "none"
    /\ raw_text = NaN
    /\ attempted = <<>>
    /\ matched_row = 0
    /\ info = NoProductInfo
    /\ source = ""
    /\ remembered = NoRecord
    /\ frames = [t \in Threads |-> Idle]
    /\ rules \in UNION {[1..k -> RuleValues] : k \in 0..MaxRows}
    /\ hub = NoFile
    /\ saved = NoRecord
    /\ keyed = NoRecord
    /\ master = NoFile
    /\ fetch = NoRecord

NextMapper ==
    \/ \E text \in MapTexts, src \in Sources : MapHazard(text, src)
    \/ Return

SpecMapper == InitMapper /\ [][NextMapper]_vars

\* the choices the scorer can be given from the fold entries and their variants
FoldChoices ==
    ChoiceTexts(FoldRowValues \cup {RecaseRow(k, r) : k \in Kinds, r \in FoldRowValues})

FoldTexts == UNION {[1..k -> FoldChars] : k \in 0..MaxLen} \cup {NaN}

\* a default matcher over snapshots whose entries and queries use the micro sign
InitFold ==
    /\ similarity_threshold = DefaultSimilarityThreshold
    /\ long_text_threshold \in 1..MaxThreshold
    /\ reference_df \in Snapshots(FoldRowValues, 1)
    /\ wratio \in {[c \in FoldChoices |-> s] : s \in {0, 100}}
    /\ NoCall

NextFold ==
    \/ \E raw \in FoldTexts : MatchProductType(raw)
    \/ \E raw \in FoldTexts : MatchHazardCategory(raw)
    \/ Return

SpecFold == InitFold /\ [][NextFold]_vars

SpecSim == InitSim /\ [][Next]_vars

\* ------------------------------------------------------------ save_to_hub
\* the separator of the composite key
KeySep == <<":", ":">>

\* df['data_source'].astype(str) + '::' + df['source_detail'].astype(str)
\*   + '::' + df['registration_date'].astype(str), for one record
DedupKey(r) ==
    AsTypeStr(r.data_source) \o KeySep \o AsTypeStr(r.source_detail)
        \o KeySep \o AsTypeStr(r.registration_date)

\* the records a collector hands over, after validate_schema
HubRecords ==
    {[data_source |-> <<"F">>, source_detail |-> <<"a">>,
      registration_date |-> <<"1">>, product_name |-> <<"x">>],
     [data_source |-> <<"F">>, source_detail |-> <<"a">>,
      registration_date |-> <<"1">>, product_name |-> <<"y">>],
     [data_source |-> <<"F">>, source_detail |-> <<"b">>,
      registration_date |-> <<"1">>, product_name |-> <<"x">>]}

\* the elements of a sequence
Range(seq) == {seq[i] : i \in 1..Len(seq)}

\* existing_df: the rows read from the hub file, none when there is no file
\* or reading it raised
ExistingDf(file, readable) ==
    IF file.exists /\ readable THEN file.rows ELSE <<>>

\* existing_keys
ExistingKeys(existing_df) == {DedupKey(r) : r \in Range(existing_df)}

\* new_records = df[~df['_dedup_key'].isin(existing_keys)]
NewRecords(df, existing_keys) ==
    LET IsNew(r) == DedupKey(r) \notin existing_keys
    IN SelectSeq(df, IsNew)

\* combined_df
CombinedDf(existing_df, new_records) ==
    IF existing_df # <<>> THEN existing_df \o new_records ELSE new_records

\* save_to_hub(df): readable tells whether read_parquet succeeds
SaveToHub(df, readable) ==
    LET existing_df == ExistingDf(hub, readable)
        new_records == NewRecords(df, ExistingKeys(existing_df))
        new_count == Len(new_records)
    IN  /\ hub' = IF new_count = 0 THEN hub
                  ELSE [exists |-> TRUE, rows |-> CombinedDf(existing_df, new_records)]
        /\ saved' = [op |-> "save_to_hub", df |-> df, readable |-> readable,
                     before |-> hub, returned |-> new_count]
        /\ UNCHANGED <<similarity_threshold, long_text_threshold, reference_df, wratio>>
        /\ UNCHANGED <<op, raw_text, attempted, matched_row, info, source, remembered, frames, rules>>
        /\ UNCHANGED <<keyed, master, fetch>>

\* a default matcher that is not used, and no storage call yet
InitStore ==
    /\ similarity_threshold = DefaultSimilarityThreshold
    /\ long_text_threshold = DefaultLongTextThreshold
    /\ reference_df = [columns |-> AllColumns, rows |-> <<>>]
    /\ wratio = [c \in {} |-> 0]
    /\ NoCall

NextHub ==
    \E df \in UNION {[1..k -> HubRecords] : k \in 0..MaxRows}, readable \in BOOLEAN :
        SaveToHub(df, readable)

\* an empty hub directory and a sequence of save_to_hub calls
SpecHub == InitStore /\ [][NextHub]_vars

\* ---------------------------------------------------------- deduplication
\* the number of hex digits kept of the digest
KeyLength == 16

\* truth value of a text or of None in a condition: None and '' are false
Truthy(v) == v \notin {PyNone, PyFalse, <<>>}

\* f"{v}" of a text, of None or of NaN
FormatValue(v) ==
    IF v = PyNone THEN <<"N", "o", "n", "e">> ELSE AsTypeStr(v)

\* key_string of generate_unique_key
KeyString(src, ref_no, date_registered) ==
    IF Truthy(date_registered)
    THEN FormatValue(src) \o KeySep \o FormatValue(ref_no) \o KeySep \o FormatValue(date_registered)
    ELSE FormatValue(src) \o KeySep \o FormatValue(ref_no)

\* hashlib.sha256(key_string.encode()).hexdigest()[:16]: the digest stands
\* for the string it was computed from, cut to KeyLength hex digits
generate_unique_key(src, ref_no, date_registered) ==
    [sha256 |-> KeyString(src, ref_no, date_registered), length |-> KeyLength]

\* the key the lambda of deduplicate_records gives a row: a null date is passed as None
UniqueKey(row) ==
    generate_unique_key(row.source, row.ref_no,
        IF row.date_registered # NaN THEN FormatValue(row.date_registered) ELSE PyNone)

\* a record before deduplication: its id is not set yet
MkEntry(ref_no, date_registered, name) ==
    [id |-> <<>>, source |-> <<"F">>, ref_no |-> ref_no,
     date_registered |-> date_registered, product_name |-> name]

DedupEntries ==
    {MkEntry(<<"1">>, NaN, <<"x">>), MkEntry(<<"1">>, NaN, <<"y">>),
     MkEntry(<<"1">>, <<"d">>, <<"x">>), MkEntry(<<"2">>, NaN, <<"x">>)}

\* drop_duplicates(subset=['_unique_key'], keep='last'): a row stays when no
\* later row has its key
RECURSIVE DropDuplicates_KeepLast(_)
DropDuplicates_KeepLast(rows) ==
    IF rows = <<>> THEN <<>>
    ELSE IF \E j \in 2..Len(rows) : UniqueKey(rows[j]) = UniqueKey(rows[1])
         THEN DropDuplicates_KeepLast(Tail(rows))
         ELSE <<rows[1]>> \o DropDuplicates_KeepLast(Tail(rows))
\* drop_duplicates(subset=['_unique_key'], keep='first'): a row stays when no
\* earlier row has its key
RECURSIVE DropDuplicates(_)
DropDuplicates(rows) ==
    IF rows = <<>> THEN <<>>
    ELSE LET n == Len(rows)
             front == DropDuplicates(SubSeq(rows, 1, n - 1))
         IN IF \E j \in 1..(n - 1) : UniqueKey(rows[j]) = UniqueKey(rows[n])
            THEN front
            ELSE Append(front, rows[n])

\* deduplicate_records(df, existing_keys)
deduplicate_records(df, existing_keys) ==
    LET IsNew(r) == UniqueKey(r) \notin existing_keys
        df_new == DropDuplicates(SelectSeq(df, IsNew))
    IN [i \in 1..Len(df_new) |-> [df_new[i] EXCEPT !.id = UniqueKey(df_new[i])]]

\* one call of generate_unique_key; the caller keeps the call before it
GenerateUniqueKey(src, ref_no, date_registered) ==
    /\ keyed.op \in {"none", "generate_unique_key"}
    /\ keyed' = [op |-> "generate_unique_key",
                 args |-> <<src, ref_no, date_registered>>,
                 key |-> generate_unique_key(src, ref_no, date_registered),
                 earlier |-> IF keyed.op = "none" THEN NoRecord
                             ELSE [op |-> "generate_unique_key", args |-> keyed.args, key |-> keyed.key]]
    /\ UNCHANGED <<similarity_threshold, long_text_threshold, reference_df, wratio>>
    /\ UNCHANGED <<op, raw_text, attempted, matched_row, info, source, remembered, frames, rules>>
    /\ UNCHANGED <<hub, saved, master, fetch>>

\* one call of deduplicate_records
DeduplicateRecords(df, existing_keys) ==
    /\ keyed.op = "none"
    /\ keyed' = [op |-> "deduplicate_records", df |-> df, existing_keys |-> existing_keys,
                 result |-> deduplicate_records(df, existing_keys)]
    /\ UNCHANGED <<similarity_threshold, long_text_threshold, reference_df, wratio>>
    /\ UNCHANGED <<op, raw_text, attempted, matched_row, info, source, remembered, frames, rules>>
    /\ UNCHANGED <<hub, saved, master, fetch>>

\* the caller drops what the last call returned
Discard ==
    /\ keyed.op # "none"
    /\ keyed' = NoRecord
    /\ UNCHANGED <<similarity_threshold, long_text_threshold, reference_df, wratio>>
    /\ UNCHANGED <<op, raw_text, attempted, matched_row, info, source, remembered, frames, rules>>
    /\ UNCHANGED <<hub, saved, master, fetch>>

NextDedup ==
    \/ \E src \in {<<"F">>}, ref_no \in {<<"1">>, <<"1">> \o KeySep \o <<"d">>},
          date_registered \in {PyNone, <<>>, <<"d">>} :
           GenerateUniqueKey(src, ref_no, date_registered)
    \/ \E df \in UNION {[1..k -> DedupEntries] : k \in 0..MaxRows},
          existing_keys \in SUBSET {UniqueKey(r) : r \in DedupEntries} :
           DeduplicateRecords(df, existing_keys)
    \/ Discard

SpecDedup == InitStore /\ [][NextDedup]_vars

\* ------------------------------------------------------- ReferenceLoader.run
\* a row of product_code_master: its code, its name, the code of its top
\* level entry, the derived top level name and the manual flag (NaN where the
\* file or the row has no value for the column)
MkMaster(code, name, top_code, top_name, manual) ==
    [PRDLST_CD |-> code, KOR_NM |-> name, HTRK_PRDLST_CD |-> top_code,
     TOP_NM |-> top_name, IS_MANUAL_FIXED |-> manual]

\* the rows the service returns for I2510: neither a derived name nor a flag
FetchedRows ==
    {MkMaster(<<"p">>, <<"x">>, <<"p">>, NaN, NaN),
     MkMaster(<<"p">>, <<"y">>, <<"p">>, NaN, NaN),
     MkMaster(<<"c">>, <<"x">>, <<"p">>, NaN, NaN)}

\* manual_df = old_df[old_df['IS_MANUAL_FIXED'] == True]
ManualDf(old_df) ==
    LET IsManual(r) == r.IS_MANUAL_FIXED = PyTrue
    IN SelectSeq(old_df, IsManual)

\* new_df[~new_df[pk].isin(manual_pks)]
WithoutManualPks(new_df, manual_df) ==
    LET manual_pks == {r.PRDLST_CD : r \in Range(manual_df)}
        IsFree(r) == r.PRDLST_CD \notin manual_pks
    IN SelectSeq(new_df, IsFree)

\* 'IS_MANUAL_FIXED' not in final_df.columns: no row carries a flag
LacksManualColumn(rows) == \A r \in Range(rows) : r.IS_MANUAL_FIXED = NaN

\* final_df['IS_MANUAL_FIXED'] = False when the column is missing
EnsureManualColumn(rows) ==
    IF LacksManualColumn(rows)
    THEN [i \in 1..Len(rows) |-> [rows[i] EXCEPT !.IS_MANUAL_FIXED = PyFalse]]
    ELSE rows

\* the merge step of run for one master: the file it leaves
MergeStep(file, new_df, readable) ==
    IF new_df = <<>> THEN file
    ELSE LET manual_df == ManualDf(file.rows)
             final_df ==
                 IF file.exists /\ readable /\ ~LacksManualColumn(file.rows) /\ manual_df # <<>>
                 THEN manual_df \o WithoutManualPks(new_df, manual_df)
                 ELSE new_df
         IN [exists |-> TRUE, rows |-> EnsureManualColumn(final_df)]

\* lookup_map = df.set_index('PRDLST_CD')['KOR_NM'].to_dict(): the last row
\* of a code gives its name
LookupName(rows, code) ==
    LET hits == {i \in 1..Len(rows) : rows[i].PRDLST_CD = code}
    IN IF hits = {} THEN NaN
       ELSE rows[CHOOSE i \in hits : \A j \in hits : j <= i].KOR_NM

\* df['HTRK_PRDLST_CD'].map(lookup_map).fillna(df['HTRK_PRDLST_CD'])
TopName(rows, r) ==
    IF LookupName(rows, r.HTRK_PRDLST_CD) # NaN
    THEN LookupName(rows, r.HTRK_PRDLST_CD)
    ELSE r.HTRK_PRDLST_CD

\* enrich_product_master: the file it leaves
EnrichProductMaster(file, readable) ==
    IF ~file.exists \/ ~readable THEN file
    ELSE [exists |-> TRUE,
          rows |-> EnsureManualColumn(
                       [i \in 1..Len(file.rows) |->
                           [file.rows[i] EXCEPT !.TOP_NM = TopName(file.rows, file.rows[i])]])]

\* ReferenceLoader.run for product_code_master: new_df is what fetch_data
\* returned, readable tells whether read_parquet succeeds on the stored file;
\* a file the merge step has just written can be read
Run(new_df, readable) ==
    LET merged == MergeStep(master, new_df, readable)
    IN  /\ master' = EnrichProductMaster(merged, readable \/ new_df # <<>>)
        /\ saved' = [op |-> "run", new_df |-> new_df, readable |-> readable,
                     before |-> master, merged |-> merged]
        /\ UNCHANGED <<similarity_threshold, long_text_threshold, reference_df, wratio>>
        /\ UNCHANGED <<op, raw_text, attempted, matched_row, info, source, remembered, frames, rules>>
        /\ UNCHANGED <<hub, keyed, fetch>>

\* the data editor of the product type view saves a row whose name was
\* edited to 'm': the row is flagged as manually fixed and the file is written
\* without the derived names
ManualEdit(i) ==
    /\ master.exists
    /\ i \in 1..Len(master.rows)
    /\ master' = [master EXCEPT !.rows =
           [j \in 1..Len(master.rows) |->
               IF j = i
               THEN [master.rows[j] EXCEPT !.KOR_NM = <<"m">>, !.TOP_NM = NaN,
                                           !.IS_MANUAL_FIXED = PyTrue]
               ELSE [master.rows[j] EXCEPT !.TOP_NM = NaN]]]
    /\ saved' = NoRecord
    /\ UNCHANGED <<similarity_threshold, long_text_threshold, reference_df, wratio>>
    /\ UNCHANGED <<op, raw_text, attempted, matched_row, info, source, remembered, frames, rules>>
    /\ UNCHANGED <<hub, keyed, fetch>>

NextLoader ==
    \/ \E new_df \in UNION {[1..k -> FetchedRows] : k \in 0..MaxRows}, readable \in BOOLEAN :
           Run(new_df, readable)
    \/ \E i \in 1..MaxRows : ManualEdit(i)

\* no master file yet, then refreshes and manual edits
SpecLoader == InitStore /\ [][NextLoader]_vars

\* ------------------------------------------------ ReferenceLoader.fetch_data
\* step: the rows asked for in one request
PageStep == 1000

\* the pages a service holds at most, and the timeouts met during one call
MaxPages == 2
MaxRetries == 2

\* the services fetched
ServiceIds == {"I2510", "I2530"}

\* the number of rows a service holds: whole pages, or one row on the last page
ServiceTotals ==
    {0} \cup {k * PageStep : k \in 1..MaxPages} \cup {(k - 1) * PageStep + 1 : k \in 1..MaxPages}

\* the responses after which the loop is left: no JSON, the end-of-data
\* message, another answer without the service key, no 'row' key, an empty
\* row list, any other exception
LeaveReasons ==
    {"json_error", "end_of_data", "no_service_key", "no_row_key", "empty_rows", "exception"}

\* the rows start..end of a service holding total rows
PageRows(start, total) ==
    [first |-> start,
     last |-> IF start + PageStep - 1 <= total THEN start + PageStep - 1 ELSE total]

\* df = pd.DataFrame(all_rows), with the two flag columns added for I2530
FetchedDf(service_id, all_rows) ==
    [rows |-> all_rows, flags_added |-> service_id = "I2530" /\ all_rows # <<>>]

\* a call of fetch_data enters its loop
StartFetch(service_id, total) ==
    /\ IF fetch = NoRecord THEN TRUE ELSE fetch.pc = "returned"
    /\ fetch' = [op |-> "fetch_data", service_id |-> service_id, total |-> total,
                 pc |-> "loop", start |-> 1, all_rows |-> <<>>, slept |-> 0,
                 outcome |-> "none"]
    /\ UNCHANGED <<similarity_threshold, long_text_threshold, reference_df, wratio>>
    /\ UNCHANGED <<op, raw_text, attempted, matched_row, info, source, remembered, frames, rules>>
    /\ UNCHANGED <<hub, saved, keyed, master>>

\* requests.exceptions.ReadTimeout: sleep and ask for the same range again
ReadTimeout ==
    /\ fetch.op = "fetch_data" /\ fetch.pc = "loop"
    /\ fetch.slept < MaxRetries
    /\ fetch' = [fetch EXCEPT !.slept = @ + 1, !.outcome = "timeout"]
    /\ UNCHANGED <<similarity_threshold, long_text_threshold, reference_df, wratio>>
    /\ UNCHANGED <<op, raw_text, attempted, matched_row, info, source, remembered, frames, rules>>
    /\ UNCHANGED <<hub, saved, keyed, master>>

\* a response with rows: the service holds rows from start on
Page ==
    /\ fetch.op = "fetch_data" /\ fetch.pc = "loop"
    /\ fetch.start <= fetch.total
    /\ fetch' = [fetch EXCEPT !.all_rows = Append(@, PageRows(fetch.start, fetch.total)),
                              !.start = @ + PageStep,
                              !.outcome = "page"]
    /\ UNCHANGED <<similarity_threshold, long_text_threshold, reference_df, wratio>>
    /\ UNCHANGED <<op, raw_text, attempted, matched_row, info, source, remembered, frames, rules>>
    /\ UNCHANGED <<hub, saved, keyed, master>>

\* the response is handled like a timeout: the loop goes on
Leave_Retries(reason) ==
    /\ fetch.op = "fetch_data" /\ fetch.pc = "loop"
    /\ fetch.outcome # reason
    /\ fetch' = [fetch EXCEPT !.outcome = reason]
    /\ UNCHANGED <<similarity_threshold, long_text_threshold, reference_df, wratio>>
    /\ UNCHANGED <<op, raw_text, attempted, matched_row, info, source, remembered, frames, rules>>
    /\ UNCHANGED <<hub, saved, keyed, master>>
\* every other response: break, build the frame and return it
Leave(reason) ==
    /\ fetch.op = "fetch_data" /\ fetch.pc = "loop"
    /\ fetch' = [op |-> "fetch_data", service_id |-> fetch.service_id, total |-> fetch.total,
                 pc |-> "returned", start |-> fetch.start, all_rows |-> fetch.all_rows,
                 slept |-> fetch.slept, outcome |-> reason,
                 df |-> FetchedDf(fetch.service_id, fetch.all_rows)]
    /\ UNCHANGED <<similarity_threshold, long_text_threshold, reference_df, wratio>>
    /\ UNCHANGED <<op, raw_text, attempted, matched_row, info, source, remembered, frames, rules>>
    /\ UNCHANGED <<hub, saved, keyed, master>>

\* a response other than a read timeout
Respond == Page \/ \E reason \in LeaveReasons : Leave(reason)

NextFetch ==
    \/ \E service_id \in ServiceIds, total \in ServiceTotals : StartFetch(service_id, total)
    \/ ReadTimeout
    \/ Page
    \/ \E reason \in LeaveReasons : Leave(reason)

\* a read timeout does not recur forever: a request is answered in the end
SpecFetchFair == InitStore /\ [][NextFetch]_vars /\ WF_vars(Respond)

\* ------------------------------------------------- vocabulary of the claims
\* the normalized query of the call that has just run
Term == NormalizeText(raw_text)

\* the candidate columns of the call that has just run
Candidates == IF op = "product" THEN ProductMatchColumns ELSE HazardMatchColumns

\* positions of the candidate columns the snapshot has
Present == {j \in 1..Len(Candidates) : Candidates[j] \in reference_df.columns}

\* the cell of row i in candidate column j
CellAt(j, i) == reference_df.rows[i][Candidates[j]]

StrategiesOf(attempts) == [i \in 1..Len(attempts) |-> attempts[i].strategy]

Tried(s) == \E i \in 1..Len(attempted) : attempted[i].strategy = s

RowOf(s) == attempted[CHOOSE i \in 1..Len(attempted) : attempted[i].strategy = s].row

IsPrefix(p, q) == Len(p) <= Len(q) /\ p = SubSeq(q, 1, Len(p))

\* what a strategy returns when it is run alone on the query of the call
Alone(s) ==
    CASE s = "exact" -> ExactMatch(Term, reference_df, Candidates)
      [] s = "keyword" -> KeywordMatch(Term, reference_df, Candidates)
      [] s = "scan" -> SentenceScanMatch(Term, reference_df, Candidates)
      [] s = "fuzzy" -> FuzzyMatch(wratio, similarity_threshold, Term, reference_df, Candidates)

\* the call ran the strategies of order, each only after the ones before it
\* returned no row, and built its result from the first row returned
FollowsCascade(order) ==
    /\ IsPrefix(StrategiesOf(attempted), order)
    /\ \A i \in 1..Len(attempted) : attempted[i].row = Alone(attempted[i].strategy)
    /\ \A i \in 1..(Len(attempted) - 1) : attempted[i].row = 0
    /\ Len(attempted) < Len(order) => attempted[Len(attempted)].row # 0
    /\ matched_row = attempted[Len(attempted)].row
    /\ info = IF op = "product" THEN ProductInfo(reference_df, matched_row)
                                ELSE HazardInfo(reference_df, matched_row)

\* the length of the raw text between its first and its last non-blank character
CoreLen(text) ==
    IF text = NaN THEN 0
    ELSE LET solid == {i \in 1..Len(text) : text[i] # " "} IN
         IF solid = {} THEN 0 ELSE Max(solid) - Min(solid) + 1

\* the call that has just run went through the strategies
Ran == op # "none" /\ attempted # <<>>

OnStandardPath == Ran /\ (op = "product" \/ CoreLen(raw_text) <= long_text_threshold)

OnLongPath == Ran /\ op = "hazard" /\ CoreLen(raw_text) > long_text_threshold

\* ---------------------------------------------------------------- claims
\* C1: on the standard path (every product query, every hazard query whose
\* normalized length is at most the long-text threshold) the strategies run in
\* the order Exact, Keyword, Similarity, a later one only when every earlier one
\* returned no row, and the result is built from the first row returned.
C1_StandardCascade == OnStandardPath => FollowsCascade(<<"exact", "keyword", "fuzzy">>)

\* C1 witness: a short hazard query that Exact and Keyword missed and Similarity matched
C1_Witness ==
    /\ OnStandardPath /\ op = "hazard"
    /\ StrategiesOf(attempted) = <<"exact", "keyword", "fuzzy">>
    /\ matched_row # 0

C3_LongTextGate ==
    (Ran /\ op = "hazard") =>
        /\ Tried("scan") <=> CoreLen(raw_text) > long_text_threshold
        /\ Tried("scan") => attempted[1].strategy = "scan"
        /\ CoreLen(raw_text) = long_text_threshold => attempted[1].strategy = "exact"
        /\ CoreLen(raw_text) = long_text_threshold + 1 => attempted[1].strategy = "scan"

\* C3 witness: a raw text longer than T whose normalized length is exactly T took
\* the standard cascade
C3_Witness ==
    /\ Ran /\ op = "hazard"
    /\ Len(raw_text) > long_text_threshold
    /\ CoreLen(raw_text) = long_text_threshold
    /\ ~Tried("scan")

\* rows whose value in candidate column j equals the query
EqualRows(j) == {i \in RowIds(reference_df) : ColumnStrLower(CellAt(j, i)) = Term}

\* C4: the Exact Matcher returns the first row of the first candidate column in
\* which some entry equals the query, and no row when no column has one.
C4_ExactColumnPriority ==
    (Ran /\ Tried("exact")) =>
        LET hits == {j \in Present : EqualRows(j) # {}} IN
        IF hits = {} THEN RowOf("exact") = 0
        ELSE RowOf("exact") = Min(EqualRows(Min(hits)))

\* C4 witness: the row returned has the equal entry in an earlier column while an
\* earlier row has one in a later column
C4_Witness ==
    /\ Ran /\ Tried("exact") /\ RowOf("exact") > 1
    /\ \E j \in Present, k \in Present :
          /\ j < k
          /\ RowOf("exact") \in EqualRows(j)
          /\ \E i \in EqualRows(k) : i < RowOf("exact")

\* rows whose value in candidate column j is contained in the query (forward containment)
ForwardRows(j) ==
    {i \in RowIds(reference_df) :
        /\ NormalizeText(CellAt(j, i)) # <<>>
        /\ Contains(Term, NormalizeText(CellAt(j, i)))}

\* rows whose value in candidate column j, as text, contains the query (reverse containment)
ReverseRows(j) ==
    {i \in RowIds(reference_df) : Contains(ColumnStrLower(CellAt(j, i)), Term)}

\* C5 as stated: in each candidate column forward containment is run over all rows
\* before reverse containment; the first hit by column, pass and row order is returned.
C5_ForwardPassFirst ==
    (Ran /\ Tried("keyword")) =>
        LET hits == {j \in Present : ForwardRows(j) \cup ReverseRows(j) # {}} IN
        IF hits = {} THEN RowOf("keyword") = 0
        ELSE LET j == Min(hits) IN
             RowOf("keyword") = IF ForwardRows(j) # {} THEN Min(ForwardRows(j))
                                ELSE Min(ReverseRows(j))

\* C5 amended: in each candidate column reverse containment (the entry contains the
\* query) is run over all rows before forward containment (the query contains the
\* entry); the first hit by column, pass and row order is returned.
C5_ReversePassFirst ==
    (Ran /\ Tried("keyword")) =>
        LET hits == {j \in Present : ForwardRows(j) \cup ReverseRows(j) # {}} IN
        IF hits = {} THEN RowOf("keyword") = 0
        ELSE LET j == Min(hits) IN
             RowOf("keyword") = IF ReverseRows(j) # {} THEN Min(ReverseRows(j))
                                ELSE Min(ForwardRows(j))

\* C5 witness: in the deciding column an earlier row matches by forward containment
\* only, a later row by reverse containment only, and the later row is returned
C5_Witness ==
    /\ Ran /\ Tried("keyword") /\ RowOf("keyword") # 0
    /\ LET j == Min({k \in Present : ForwardRows(k) \cup ReverseRows(k) # {}}) IN
       /\ RowOf("keyword") \in ReverseRows(j) \ ForwardRows(j)
       /\ \E i \in ForwardRows(j) \ ReverseRows(j) : i < RowOf("keyword")

\* value occurs in text as a token bounded by non-word characters or the text edges
DelimitedIn(value, text) ==
    \E p \in 1..(Len(text) - Len(value) + 1) :
        /\ SubSeq(text, p, p + Len(value) - 1) = value
        /\ p = 1 \/ ~IsWordChar(text[p - 1])
        /\ p + Len(value) - 1 = Len(text) \/ ~IsWordChar(text[p + Len(value)])

\* row i matches the query in candidate column j under the short-keyword guard
GuardedMatch(j, i) ==
    \/ i \in ReverseRows(j)
    \/ /\ i \in ForwardRows(j)
       /\ \/ Len(NormalizeText(CellAt(j, i))) >= 2
          \/ DelimitedIn(NormalizeText(CellAt(j, i)), Term)

\* C6: the Keyword Matcher returns a row through an entry shorter than 2 characters
\* contained in the query only where the entry is a delimited token of the query.
C6_ShortKeywordGuard ==
    (Ran /\ Tried("keyword") /\ RowOf("keyword") # 0) =>
        \E j \in Present : GuardedMatch(j, RowOf("keyword"))

\* the (column, row) pairs whose non-empty normalized value occurs in the query
ScanPairs ==
    {p \in Present \X RowIds(reference_df) :
        /\ NormalizeText(CellAt(p[1], p[2])) # <<>>
        /\ Contains(Term, NormalizeText(CellAt(p[1], p[2])))}

ScanLen(p) == Len(NormalizeText(CellAt(p[1], p[2])))

\* the pairs of greatest value length
LongestPairs == {p \in ScanPairs : \A q \in ScanPairs : ScanLen(q) <= ScanLen(p)}

\* p comes before q in the scanner's iteration order: column by column, row by row
Before(p, q) == p[1] < q[1] \/ (p[1] = q[1] /\ p[2] < q[2])

C8_ScanFirstOfTies ==
    (Ran /\ Tried("scan") /\ ScanPairs # {}) =>
        \E p \in LongestPairs :
            /\ \A q \in LongestPairs : q = p \/ Before(p, q)
            /\ RowOf("scan") = p[2]

\* C8 witness: two rows tie on the greatest length and the one met first is returned
C8_Witness ==
    /\ Ran /\ Tried("scan") /\ RowOf("scan") # 0
    /\ \E p \in LongestPairs, q \in LongestPairs :
          /\ Before(p, q) /\ p[2] # q[2]
          /\ \A r \in LongestPairs : r = p \/ Before(p, r)
          /\ RowOf("scan") = p[2]
          /\ \A r \in LongestPairs : r[2] = p[2] => r = p

\* the score of the entry of row i in candidate column j
ScoreAt(j, i) == WRatio(wratio, Term, ColumnStrLower(CellAt(j, i)))

AllPairs == Present \X RowIds(reference_df)

\* the best score over all candidate columns and rows
BestScore == Max({ScoreAt(p[1], p[2]) : p \in AllPairs})

\* C9: a row returned by the Similarity Matcher scores, in some candidate column,
\* at least as high as every (column, row) pair of the snapshot.
C9_FuzzyGloballyBest ==
    (Ran /\ Tried("fuzzy") /\ RowOf("fuzzy") # 0) =>
        \E j \in Present : ScoreAt(j, RowOf("fuzzy")) = BestScore

\* C9 witness: the row returned has the best score in a later column while another
\* row of an earlier column scores at or above the cutoff but strictly lower
C9_Witness ==
    /\ Ran /\ Tried("fuzzy") /\ RowOf("fuzzy") # 0
    /\ \E j \in Present, k \in Present, i \in RowIds(reference_df) :
          /\ j < k /\ i # RowOf("fuzzy")
          /\ ScoreAt(k, RowOf("fuzzy")) = BestScore
          /\ ScoreAt(j, i) >= similarity_threshold
          /\ ScoreAt(j, i) < BestScore
          /\ \A m \in Present : ScoreAt(m, i) < BestScore

\* C10: the Similarity Matcher returns a row exactly when the best score over all
\* candidate columns and rows is at or above the cutoff.
C10_CutoffBoundary ==
    (Ran /\ Tried("fuzzy") /\ AllPairs # {}) =>
        (RowOf("fuzzy") # 0 <=> BestScore >= similarity_threshold)

\* the no-match result of the function that has just been called
NoInfo == IF op = "product" THEN NoProductInfo ELSE NoHazardInfo

\* C11: a call whose raw text is null, empty or whitespace only, or whose snapshot
\* has no rows, returns the no-match result (top and upper null for a product,
\* category null with both flags false for a hazard) without attempting any strategy.
C11_EmptyInputShortCircuit ==
    (op \in {"product", "hazard"}
        /\ (raw_text = NaN \/ CoreLen(raw_text) = 0 \/ Len(reference_df.rows) = 0))
    => (attempted = <<>> /\ matched_row = 0 /\ info = NoInfo)

\* C11 witness: a whitespace-only hazard query against a snapshot that has rows
C11_Witness ==
    /\ op = "hazard"
    /\ raw_text # NaN /\ Len(raw_text) > 0 /\ CoreLen(raw_text) = 0
    /\ Len(reference_df.rows) > 0
    /\ attempted = <<>> /\ info = NoHazardInfo

\* the outcome of the function that has just been called, for another text or snapshot
Resolve(raw, df) ==
    IF op = "product"
    THEN match_product_type(wratio, similarity_threshold, raw, df)
    ELSE match_hazard_category(wratio, similarity_threshold, long_text_threshold, raw, df)

\* C12: a query, the query with whitespace added before or after it, the
\* upper-cased query and the lower-cased query all return the same result, and
\* upper-casing, lower-casing or padding the reference values does not change
\* which row is matched.
C12_CaseWhitespaceInsensitive ==
    op \in {"product", "hazard"} =>
        \A k \in Kinds :
            /\ Resolve(Recase(k, raw_text), reference_df).info = info
            /\ Resolve(raw_text, RecaseFrame(k, reference_df)).matched_row = matched_row

\* variants that lower-case to the same text: what C12 comes to without the
\* characters whose upper-case form lower-cases to another character
SameLowerCaseInsensitive ==
    op \in {"product", "hazard"} =>
        \A k \in Kinds :
            /\ StripLower(Recase(k, raw_text)) = StripLower(raw_text)
                 => Resolve(Recase(k, raw_text), reference_df).info = info
            /\ (\A i \in RowIds(reference_df), c \in NameColumns :
                    ColumnStrLower(Recase(k, reference_df.rows[i][c]))
                        = ColumnStrLower(reference_df.rows[i][c]))
                 => Resolve(raw_text, RecaseFrame(k, reference_df)).matched_row = matched_row

\* C13: a matcher configured with a similarity cutoff outside 0..100 is rejected
\* when it is constructed, so the Similarity Matcher never runs with such a cutoff.
C13_InvalidCutoffRejected ==
    (op \in {"product", "hazard"} /\ Tried("fuzzy")) => similarity_threshold \in 0..100

\* the candidate columns the snapshot has, in the configured order
PresentColumns ==
    LET Has(c) == c \in reference_df.columns IN SelectSeq(Candidates, Has)

\* what a strategy returns on the query of the call over the columns cols
AloneOn(s, cols) ==
    CASE s = "exact" -> ExactMatch(Term, reference_df, cols)
      [] s = "keyword" -> KeywordMatch(Term, reference_df, cols)
      [] s = "scan" -> SentenceScanMatch(Term, reference_df, cols)
      [] s = "fuzzy" -> FuzzyMatch(wratio, similarity_threshold, Term, reference_df, cols)

\* every strategy run by the call skipped the absent candidate columns and went
\* on with the present ones; with no candidate column the result is no-match
SkipsAbsentColumns ==
    /\ \A i \in 1..Len(attempted) :
          attempted[i].row = AloneOn(attempted[i].strategy, PresentColumns)
    /\ Present = {} => (matched_row = 0 /\ info = NoInfo)

\* the fields of the result of the call and the output columns each is read from
Fields == IF op = "product" THEN {"top", "upper"} ELSE {"category", "analyzable", "interest"}

FieldColumns(field) ==
    CASE field = "top" -> <<"HTRK_PRDLST_NM", "GR_NM">>
      [] field = "upper" -> <<"HRRK_PRDLST_NM", "PRDLST_CL_NM">>
      [] field = "category" -> <<"M_KOR_NM">>
      [] field = "analyzable" -> <<"ANALYZABLE">>
      [] field = "interest" -> <<"INTEREST_ITEM">>

NullOf(field) == IF field \in {"analyzable", "interest"} THEN FALSE ELSE NaN

Absent(col) == col \notin reference_df.columns

\* C14 as stated: a call on a snapshot that lacks columns skips the absent
\* candidate columns in every strategy, returns no-match when no candidate column
\* is present, and returns null (false for a flag) in a result field whenever an
\* output column of that field is absent from the matched row.
C14_AbsentColumnNullField ==
    op \in {"product", "hazard"} =>
        /\ SkipsAbsentColumns
        /\ \A f \in Fields : \A k \in 1..Len(FieldColumns(f)) :
              Absent(FieldColumns(f)[k]) => info[f] = NullOf(f)

\* C14 amended: as above for the candidate columns; a result field is null (false
\* for a flag) when every output column it is read from is absent, and a product
\* field whose first column is absent takes the value of its fallback column.
C14_AbsentColumnsDegrade ==
    op \in {"product", "hazard"} =>
        /\ SkipsAbsentColumns
        /\ \A f \in Fields :
              /\ (\A k \in 1..Len(FieldColumns(f)) : Absent(FieldColumns(f)[k]))
                    => info[f] = NullOf(f)
              /\ (matched_row # 0 /\ Len(FieldColumns(f)) = 2
                    /\ Absent(FieldColumns(f)[1]) /\ ~Absent(FieldColumns(f)[2]))
                    => info[f] = reference_df.rows[matched_row][FieldColumns(f)[2]]

\* C14 witness: a product query on a snapshot without KOR_NM and HTRK_PRDLST_NM
\* that Exact matched in ENG_NM, its top field read from GR_NM
C14_Witness ==
    /\ op = "product"
    /\ Absent("KOR_NM") /\ Absent("HTRK_PRDLST_NM")
    /\ attempted = <<Attempt("exact", matched_row)>> /\ matched_row # 0
    /\ info.top = reference_df.rows[matched_row]["GR_NM"]

C16_QueriesLeaveStateUnchanged ==
    [][(op = "none" /\ op' \in {"product", "hazard"})
          => (/\ reference_df' = reference_df
              /\ similarity_threshold' = similarity_threshold
              /\ long_text_threshold' = long_text_threshold)]_vars

\* C16 witness: a hazard query that ran the Sentence Scanner and matched a row of
\* a snapshot whose names are not all lower-case
C16_Witness ==
    /\ op = "hazard" /\ Tried("scan") /\ matched_row # 0
    /\ reference_df # RecaseFrame("lower", reference_df)

\* what the call of frame f returns when it runs alone on the snapshot d
RunAlone(f, d) ==
    IF f.kind = "product"
    THEN match_product_type(wratio, similarity_threshold, f.raw, d)
    ELSE match_hazard_category(wratio, similarity_threshold, long_text_threshold, f.raw, d)

\* C17: with calls of several threads interleaved, and the loader publishing new
\* complete snapshots meanwhile, every call returns what it returns when it runs
\* alone on one snapshot that was published while it ran.
C17_ConcurrentCallsIsolated ==
    \A t \in Threads :
        frames[t].pc = "done" =>
            \E d \in frames[t].seen :
                Outcome(frames[t].attempted, frames[t].matched_row, frames[t].info)
                    = RunAlone(frames[t], d)

\* C17 witness: a call that returned a matched row after two strategies, a new
\* snapshot having been published while it ran and another call being in flight
C17_Witness ==
    \E t \in Threads, u \in Threads :
        /\ t # u
        /\ frames[t].pc = "done" /\ frames[t].matched_row # 0
        /\ Len(frames[t].attempted) >= 2
        /\ Cardinality(frames[t].seen) = 2
        /\ frames[u].pc = "run" /\ frames[u].attempted # <<>>

\* the candidate rules of the map_hazard call whose keyword matches its text
MatchingRules ==
    IF raw_text = NaN THEN {}
    ELSE {i \in CandidateRules(rules, source) :
            RuleMatches(rules[i].keyword, LowerText(raw_text))}

\* C18: map_hazard returns the hazard_item, class_m and class_l of the matching
\* candidate rule with the longest keyword, of the first such rule in rule order
\* when several share the greatest length, and None when no candidate rule matches.
C18_LongestKeywordFirstOfTies ==
    op = "map_hazard" =>
        /\ MatchingRules = {} => (matched_row = 0 /\ info = NaN)
        /\ MatchingRules # {} =>
              /\ matched_row \in MatchingRules
              /\ \A j \in MatchingRules :
                    /\ Len(rules[j].keyword) <= Len(rules[matched_row].keyword)
                    /\ Len(rules[j].keyword) = Len(rules[matched_row].keyword)
                          => matched_row <= j
              /\ info = HazardOf(rules[matched_row])

\* C18 witness: two different matching rules with keywords of the same length,
\* the first of them returned
C18_Witness ==
    /\ op = "map_hazard"
    /\ Cardinality(MatchingRules) = 2
    /\ rules[1] # rules[2]
    /\ Len(rules[1].keyword) = Len(rules[2].keyword)
    /\ matched_row = 1 /\ info = HazardOf(rules[1])

\* the keyword of the rule map_hazard returned
BestKeyword == rules[matched_row].keyword

\* character c occurs in text, whatever its case, as a whole token: the
\* character before it and the character after it are not word characters
\* (or are the edges of the text)
TokenIn(c, text) ==
    \E p \in 1..Len(text) :
        /\ Lower(text[p]) = Lower(c)
        /\ ~WordAt(text, p - 1)
        /\ ~WordAt(text, p + 1)

SubstringIn(keyword, text) == Contains(LowerText(text), LowerText(keyword))

\* C19: a rule whose keyword has fewer than 2 characters matches a text only
\* where the keyword stands as a whole token, bounded by non-word characters or
\* the edges of the text, and matches where it stands so; a keyword of 2 or more
\* characters matches as a plain substring.
C19_MapperShortKeywordGuard ==
    (op = "map_hazard" /\ raw_text # NaN) =>
        /\ (matched_row # 0 /\ Len(BestKeyword) = 1) => TokenIn(BestKeyword[1], raw_text)
        /\ (matched_row # 0 /\ Len(BestKeyword) >= 2) => SubstringIn(BestKeyword, raw_text)
        /\ \A i \in CandidateRules(rules, source) :
              /\ (Len(rules[i].keyword) >= 2 /\ SubstringIn(rules[i].keyword, raw_text))
                    => matched_row # 0
              /\ (Len(rules[i].keyword) = 1
                    /\ rules[i].keyword = LowerText(rules[i].keyword)
                    /\ TokenIn(rules[i].keyword[1], raw_text))
                    => matched_row # 0

\* what C19 comes to for keywords made of word characters
WordKeywordGuard ==
    (op = "map_hazard" /\ raw_text # NaN
        /\ \A i \in 1..Len(rules) : \A k \in 1..Len(rules[i].keyword) :
              IsWordChar(rules[i].keyword[k]))
    => C19_MapperShortKeywordGuard

\* the rules with the keywords in another case
RecaseRules(kind, rs) ==
    [i \in 1..Len(rs) |-> [rs[i] EXCEPT !.keyword = Recase(kind, @)]]

\* C20: changing the letter case of the text, or of the keyword of the rules,
\* 1-character keywords included, never changes what map_hazard returns.
C20_MapperCaseInsensitive ==
    op = "map_hazard" =>
        \A k \in {"upper", "lower"} :
            /\ map_hazard(rules, Recase(k, raw_text), source).info = info
            /\ map_hazard(RecaseRules(k, rules), raw_text, source).info = info

\* what C20 comes to for keywords of 2 or more characters
LongKeywordsCaseInsensitive ==
    (op = "map_hazard" /\ \A i \in 1..Len(rules) : Len(rules[i].keyword) >= 2)
    => C20_MapperCaseInsensitive

\* the rules registered for every source or for the source of the call
RulesForSource ==
    LET Allowed(r) == r.source = "ALL" \/ r.source = source IN SelectSeq(rules, Allowed)

\* C21: with a source given, only the rules whose source is 'ALL' or the given
\* source are candidates: the result is the one the same call returns when the
\* other rules are removed, the rule returned is never one of them, and None is
\* returned when no candidate remains; with no source every rule is a candidate.
C21_SourceFilter ==
    op = "map_hazard" =>
        /\ source # "" =>
              /\ matched_row # 0 => rules[matched_row].source \in {"ALL", source}
              /\ info = map_hazard(RulesForSource, raw_text, "").info
              /\ RulesForSource = <<>> => info = NaN
        /\ source = "" =>
              \A i \in 1..Len(rules) :
                  (raw_text # NaN /\ RuleMatches(rules[i].keyword, LowerText(raw_text)))
                      => (matched_row # 0
                          /\ Len(rules[matched_row].keyword) >= Len(rules[i].keyword))

\* C21 witness: a call for the source FDA whose text a longer keyword of an MFDS
\* rule matches, and that returned the shorter rule registered for every source
C21_Witness ==
    /\ op = "map_hazard" /\ source = "FDA" /\ matched_row # 0
    /\ \E i \in 1..Len(rules) :
          /\ rules[i].source = "MFDS"
          /\ RuleMatches(rules[i].keyword, LowerText(raw_text))
          /\ Len(rules[i].keyword) > Len(rules[matched_row].keyword)

\* the candidate column on whose strength Exact or Keyword returned its row: the
\* first present column in which the strategy found a row
DecidingColumn(s) ==
    Min({j \in Present :
           IF s = "exact" THEN EqualRows(j) # {}
           ELSE KeywordColumn(Term, reference_df, Candidates[j]) # 0})

\* C26: a row returned by the Exact Matcher or by the Keyword Matcher is never
\* returned on the strength of a candidate column in which its value is null.
C26_NullCellNeverMatches ==
    Ran => \A s \in {"exact", "keyword"} :
              (Tried(s) /\ RowOf(s) # 0) => CellAt(DecidingColumn(s), RowOf(s)) # NaN

\* the flag of the matched row in an output column is true
FlagIsTrue(col) ==
    /\ matched_row # 0
    /\ col \in reference_df.columns
    /\ reference_df.rows[matched_row][col] = PyTrue

\* C27: in the result of match_hazard_category analyzable is true only if a row
\* was matched and its ANALYZABLE value is true, and interest only if its
\* INTEREST_ITEM value is true; a false or null flag value, and no match, give false.
C27_FlagsNeverInvented ==
    op = "hazard" =>
        /\ info.analyzable => FlagIsTrue("ANALYZABLE")
        /\ info.interest => FlagIsTrue("INTEREST_ITEM")

\* some entry has, in a present candidate column, a value equal to the query
HasEqualEntry ==
    \E j \in Present, i \in RowIds(reference_df) : NormalizeText(CellAt(j, i)) = Term

\* C28: on the long-text path, when some entry's normalized value in a candidate
\* column equals the normalized query, the Sentence Scanner returns the row the
\* Exact Matcher returns for that query.
C28_ScanAgreesWithExact ==
    (OnLongPath /\ HasEqualEntry) => RowOf("scan") = Alone("exact")

\* the composite key of a stored record
CompositeKey(r) == <<r.data_source, r.source_detail, r.registration_date>>

\* the hub holds no two records with the same composite key
HubKeysUnique ==
    \A i, j \in 1..Len(hub.rows) :
        CompositeKey(hub.rows[i]) = CompositeKey(hub.rows[j]) => i = j

\* every record of the batch of the last call was in the hub before the call
AllAlreadyStored ==
    \A r \in Range(saved.df) :
        \E q \in Range(saved.before.rows) : CompositeKey(q) = CompositeKey(r)

Deduplicated == keyed.op = "deduplicate_records"

\* the position of the first row of df with the given key, 0 when there is none
FirstWithKey(df, key) ==
    IF \E i \in 1..Len(df) : UniqueKey(df[i]) = key
    THEN CHOOSE i \in 1..Len(df) :
             /\ UniqueKey(df[i]) = key
             /\ \A j \in 1..(i - 1) : UniqueKey(df[j]) # key
    ELSE 0

\* C23: the result of deduplicate_records holds no record whose key is in
\* existing_keys and no two records with the same key; for every key of the
\* input that is not in existing_keys exactly the first input record with that
\* key is kept, and the id of every kept record is its key
C23_DeduplicateRecords ==
    Deduplicated =>
        LET df == keyed.df
            result == keyed.result
        IN  /\ \A i \in 1..Len(result) : UniqueKey(result[i]) \notin keyed.existing_keys
            /\ \A i, j \in 1..Len(result) :
                   UniqueKey(result[i]) = UniqueKey(result[j]) => i = j
            /\ \A i \in 1..Len(df) :
                   UniqueKey(df[i]) \notin keyed.existing_keys =>
                       LET kept == {k \in 1..Len(result) : UniqueKey(result[k]) = UniqueKey(df[i])}
                           first == df[FirstWithKey(df, UniqueKey(df[i]))]
                       IN  /\ Cardinality(kept) = 1
                           /\ \A k \in kept : result[k] = [first EXCEPT !.id = UniqueKey(first)]
            /\ \A i \in 1..Len(result) : result[i].id = UniqueKey(result[i])

\* a call whose input holds two different records with one key that is not in
\* existing_keys, and whose result is not empty
C23_Witness ==
    /\ Deduplicated
    /\ \E i, j \in 1..Len(keyed.df) :
           /\ i < j
           /\ UniqueKey(keyed.df[i]) = UniqueKey(keyed.df[j])
           /\ keyed.df[i] # keyed.df[j]
           /\ UniqueKey(keyed.df[i]) \notin keyed.existing_keys
    /\ keyed.result # <<>>

\* C24: two calls of generate_unique_key with different (source, ref_no,
\* date_registered) triples yield different keys, equal triples the same key
\* of 16 characters
C24_KeysDistinguishRecords ==
    (keyed.op = "generate_unique_key" /\ keyed.earlier # NoRecord) =>
        /\ keyed.key.length = 16
        /\ (keyed.earlier.args = keyed.args) <=> (keyed.earlier.key = keyed.key)

\* the rows of the master file that were manually fixed before the last run
ManualBefore == Range(ManualDf(saved.before.rows))

\* C25: after ReferenceLoader.run every row that was manually fixed in the
\* stored file is still present with all its values, no other row with its
\* primary key is stored, and a fetch without rows leaves the file as it was
\* up to the end of the merge step
C25_ManualRowsSurvive ==
    saved.op = "run" =>
        /\ \A r \in ManualBefore :
               /\ r \in Range(master.rows)
               /\ \A q \in Range(master.rows) :
                      q.PRDLST_CD = r.PRDLST_CD => q \in ManualBefore
        /\ saved.new_df = <<>> => saved.merged = saved.before

\* a call of fetch_data is in its loop, has returned
Fetching == fetch.op = "fetch_data" /\ fetch.pc = "loop"
Returned == fetch.op = "fetch_data" /\ fetch.pc = "returned"

\* what one pass of the loop does, by the response it got
LoopPass ==
    (Fetching /\ fetch' # fetch) =>
        IF fetch'.outcome = "timeout"
        THEN /\ fetch'.pc = "loop"
             /\ fetch'.start = fetch.start
             /\ fetch'.all_rows = fetch.all_rows
        ELSE IF fetch'.outcome = "page"
        THEN /\ fetch'.pc = "loop"
             /\ fetch'.start = fetch.start + 1000
             /\ Len(fetch'.all_rows) = Len(fetch.all_rows) + 1
             /\ SubSeq(fetch'.all_rows, 1, Len(fetch.all_rows)) = fetch.all_rows
             /\ fetch'.all_rows[Len(fetch'.all_rows)].first = fetch.start
        ELSE /\ fetch'.pc = "returned"
             /\ fetch'.df.rows = fetch.all_rows

====
